---- MODULE Spec2Model ----
(***************************************************************************)
(* A model of diff.py: the listing / scope filtering / comparison /        *)
(* report pipeline of main(), with compare_listings, print_report,         *)
(* get_dir_key, human_readable_bytes and human_readable_time as operators. *)
(*                                                                         *)
(* Strings the program inspects character by character (file paths and     *)
(* directory keys) are tuples of one-character strings, so that            *)
(* str.split('/') and sorted() are computed rather than assumed.           *)
(***************************************************************************)
EXTENDS Integers, Sequences, FiniteSets, TLC

VARIABLES
    pc,               \* position of main(): which statement runs next
    args,             \* argparse result: tlds, exclude, show_all, show_fix, use_snapshot
    mounted,          \* environment: os.path.ismount(SOURCE_PATH_CONFIG)
    process,          \* the CompletedProcess objects subprocess.run returned, in order
    source_path,      \* main: source_path, the configured root or a snapshot
    source_map_full,  \* main: source_map_full
    dest_map_full,    \* main: dest_map_full
    tlds_to_process,  \* main: tlds_to_process
    source_map,       \* main: source_map (filtered)
    dest_map,         \* main: dest_map (filtered)
    changes,          \* main: differences / print_report: changes (a defaultdict)
    stdout,           \* lines printed to standard output so far
    stderr,           \* lines printed to standard error so far
    exit_code,        \* process exit status, -1 while running
    calls,            \* the functions main() has entered, in order
    prompts,          \* select_snapshot: invalid answers given so far
    time_diff,        \* human_readable_time: the argument, in seconds
    hr_time           \* human_readable_time: the returned text

vars == << pc, args, mounted, process, source_path, source_map_full, dest_map_full,
           tlds_to_process, source_map, dest_map, changes, stdout, stderr, exit_code,
           calls, prompts, time_diff, hr_time >>

-----------------------------------------------------------------------------
(* Bounds of the model *)

\* At most this many file entries exist in the two compared listings together.
MaxFiles == 3

\* At most this many invalid answers are typed at the snapshot prompt.
MaxPrompts == 1

\* The paths that may occur in a listing: two files of directory "a" (one of
\* them below a sub-directory), one of directory "b", one at the root.
Paths == { <<"a", "/", "x">>, <<"a", "/", "y", "/", "z">>, <<"b", "/", "x">>, <<"r">> }

Sizes == {1, 2}
Times == {1, 2}
Meta == [size : Sizes, mod_time : Times]

\* FileMaps with at most n entries.
FileMapsUpTo(n) ==
    UNION { [P -> Meta] : P \in { Q \in SUBSET Paths : Cardinality(Q) <= n } }

\* The orders in which Python may iterate a set of the paths S.
RECURSIVE Orders(_)
Orders(S) ==
    IF S = {} THEN { << >> }
    ELSE UNION { { << x >> \o o : o \in Orders(S \ {x}) } : x \in S }

-----------------------------------------------------------------------------
(* Strings *)

\* Code points of the characters that occur in paths and directory keys.
Ord(c) ==
    CASE c = "(" -> 40 [] c = ")" -> 41 [] c = "/" -> 47
      [] c = "a" -> 97 [] c = "b" -> 98 [] c = "o" -> 111 [] c = "r" -> 114
      [] c = "t" -> 116 [] c = "x" -> 120 [] c = "y" -> 121 [] c = "z" -> 122

\* Python's str < str: lexicographic by code point, a proper prefix is smaller.
RECURSIVE StrLess(_, _)
StrLess(s, t) ==
    IF t = << >> THEN FALSE
    ELSE IF s = << >> THEN TRUE
    ELSE IF Head(s) # Head(t) THEN Ord(Head(s)) < Ord(Head(t))
    ELSE StrLess(Tail(s), Tail(t))

\* sorted(S) for a set of strings.
RECURSIVE Sorted(_)
Sorted(S) ==
    IF S = {} THEN << >>
    ELSE LET m == CHOOSE x \in S : \A y \in S \ {x} : StrLess(x, y)
         IN  << m >> \o Sorted(S \ {m})

ROOT == << "(", "r", "o", "o", "t", ")" >>

get_dir_key_rsplit(path) ==
    IF \E i \in DOMAIN path : path[i] = "/"
    THEN LET i == CHOOSE i \in DOMAIN path :
                    path[i] = "/" /\ \A j \in (i + 1) .. Len(path) : path[j] # "/"
         IN  SubSeq(path, 1, i - 1)
    ELSE ROOT

\* if '/' in path: return path.split('/')[0]; return "(root)"
get_dir_key(path) ==
    IF \E i \in DOMAIN path : path[i] = "/"
    THEN LET i == CHOOSE i \in DOMAIN path :
                    path[i] = "/" /\ \A j \in 1 .. (i - 1) : path[j] # "/"
         IN  SubSeq(path, 1, i - 1)
    ELSE ROOT

-----------------------------------------------------------------------------
(* compare_listings *)

Kinds == { "nas_only", "cs_only", "size_changed", "nas_newer", "cs_newer" }

\* defaultdict(lambda: defaultdict(list)) with no key yet
EmptyChanges == [d \in {} |-> [k \in {} |-> << >>]]
EmptyDir == [k \in {} |-> << >>]

\* changes[d][k].append(p): both levels create the key they miss.
DictAppend(ch, d, k, p) ==
    LET inner  == IF d \in DOMAIN ch THEN ch[d] ELSE EmptyDir
        lst    == IF k \in DOMAIN inner THEN inner[k] ELSE << >>
        inner2 == [kk \in DOMAIN inner \cup {k} |->
                      IF kk = k THEN Append(lst, p) ELSE inner[kk]]
    IN  [dd \in DOMAIN ch \cup {d} |-> IF dd = d THEN inner2 ELSE ch[dd]]

\* changes[d].get(k, []): reads without creating.
DictGet(inner, k) == IF k \in DOMAIN inner THEN inner[k] ELSE << >>

\* The elements of set S in the iteration order `order`.
Enumerate(S, order) == SelectSeq(order, LAMBDA p : p \in S)

\* for path in seq: changes[get_dir_key(path)][kind].append(path)
RECURSIVE AppendAll(_, _, _)
AppendAll(ch, seq, kind) ==
    IF seq = << >> THEN ch
    ELSE AppendAll(DictAppend(ch, get_dir_key(Head(seq)), kind, Head(seq)),
                   Tail(seq), kind)

Classify_noElif(ch, path, source_file, dest_file) ==
    LET dir_name == get_dir_key(path)
        ch1 == IF source_file.size # dest_file.size
               THEN DictAppend(ch, dir_name, "size_changed", path) ELSE ch
    IN  IF source_file.mod_time # dest_file.mod_time
        THEN IF dest_file.mod_time > source_file.mod_time
             THEN DictAppend(ch1, dir_name, "nas_newer", path)
             ELSE DictAppend(ch1, dir_name, "cs_newer", path)
        ELSE ch1

Classify_flipped(ch, path, source_file, dest_file) ==
    LET dir_name == get_dir_key(path)
    IN  IF source_file.size # dest_file.size
        THEN DictAppend(ch, dir_name, "size_changed", path)
        ELSE IF source_file.mod_time # dest_file.mod_time
        THEN IF dest_file.mod_time < source_file.mod_time
             THEN DictAppend(ch, dir_name, "nas_newer", path)
             ELSE DictAppend(ch, dir_name, "cs_newer", path)
        ELSE ch

\* The body of the loop over source_paths & dest_paths.
Classify(ch, path, source_file, dest_file) ==
    LET dir_name == get_dir_key(path)
    IN  IF source_file.size # dest_file.size
        THEN DictAppend(ch, dir_name, "size_changed", path)
        ELSE IF source_file.mod_time # dest_file.mod_time
        THEN IF dest_file.mod_time > source_file.mod_time
             THEN DictAppend(ch, dir_name, "nas_newer", path)
             ELSE DictAppend(ch, dir_name, "cs_newer", path)
        ELSE ch

RECURSIVE ClassifyAll(_, _, _, _)
ClassifyAll(ch, seq, smap, dmap) ==
    IF seq = << >> THEN ch
    ELSE ClassifyAll(Classify(ch, Head(seq), smap[Head(seq)], dmap[Head(seq)]),
                     Tail(seq), smap, dmap)

\* compare_listings(source_map, dest_map); `order` is the iteration order of
\* the three path sets, which Python leaves to the hashes of the strings.
compare_listings(smap, dmap, order) ==
    LET source_paths == DOMAIN smap
        dest_paths   == DOMAIN dmap
        c1 == AppendAll(EmptyChanges, Enumerate(dest_paths \ source_paths, order), "nas_only")
        c2 == AppendAll(c1, Enumerate(source_paths \ dest_paths, order), "cs_only")
    IN  ClassifyAll(c2, Enumerate(source_paths \cap dest_paths, order), smap, dmap)

-----------------------------------------------------------------------------
(* Number formatting *)

\* A formatted quantity: fmt "int" prints a as an integer, "fixed1" prints the
\* tenths a with one decimal ("{:.1f}"), "pair" prints "a unit_a, b unit_b",
\* "N/A" and "0B" are those literals.
Text(fmt, a, unit_a, b, unit_b) ==
    [fmt |-> fmt, a |-> a, unit_a |-> unit_a, b |-> b, unit_b |-> unit_b]

RECURSIVE BitLen(_)
BitLen(n) == IF n = 0 THEN 0 ELSE 1 + BitLen(n \div 2)

\* The quotient bits of r / q still to enter the 53-bit significand are
\* produced one by one; what is left then decides the rounding of the double.
\* 1: the double is above the exact quotient, -1: below, 0: the quotient is exact.
RECURSIVE RoundErr(_, _, _, _)
RoundErr(r, q, bits, last) ==
    IF r = 0 THEN 0
    ELSE IF bits = 0
         THEN IF 2 * r > q THEN 1
              ELSE IF 2 * r < q THEN -1
              ELSE IF last = 1 THEN 1 ELSE -1
    ELSE RoundErr((2 * r) % q, q, bits - 1, (2 * r) \div q)

\* Sign of the error of the float division p / q, for p >= q > 0.
DivErr(p, q) == RoundErr(p % q, q, 53 - BitLen(p \div q), (p \div q) % 2)

\* The tenths "{p / q:.1f}" prints: the double p / q rounded to one decimal,
\* where a decimal tie is decided by the side the double lies on, and an
\* exactly represented tie goes to the even digit.
Fixed1(p, q, err) ==
    LET t == (10 * p) \div q
        r == (10 * p) % q
    IN  IF 2 * r < q THEN t
        ELSE IF 2 * r > q THEN t + 1
        ELSE IF err > 0 THEN t + 1
        ELSE IF err < 0 THEN t
        ELSE IF t % 2 = 0 THEN t ELSE t + 1

\* while size_bytes >= power and n < len(power_labels) - 1:
\*     size_bytes /= power; n += 1          (size_bytes is num / den)
RECURSIVE ScaleBytes(_, _, _)
ScaleBytes(num, den, n) ==
    IF num \div den >= 1024 /\ n < 4
    THEN ScaleBytes(num, den * 1024, n + 1)
    ELSE [num |-> num, den |-> den, n |-> n]

\* human_readable_bytes(size_bytes); a negative argument stands for None too.
\* Dividing by a power of two is exact, so no rounding error enters.
human_readable_bytes(size_bytes) ==
    IF size_bytes < 0 THEN Text("N/A", 0, "", 0, "")
    ELSE IF size_bytes = 0 THEN Text("0B", 0, "", 0, "")
    ELSE LET s == ScaleBytes(size_bytes, 1, 0)
             power_labels == [n \in 0 .. 4 |->
                 CASE n = 0 -> "B" [] n = 1 -> "KB" [] n = 2 -> "MB"
                   [] n = 3 -> "GB" [] n = 4 -> "TB"]
         IN  Text("fixed1", Fixed1(s.num, s.den, 0), power_labels[s.n], 0, "")

\* human_readable_time(time_diff), with seconds == abs(time_diff.total_seconds()),
\* a whole number. seconds / 3600 != 1 compares doubles: the quotient is the
\* double 1.0 only for seconds = 3600, and likewise for 86400.
human_readable_time(seconds) ==
    IF seconds < 60
    THEN Text("int", seconds, IF seconds # 1 THEN "seconds" ELSE "second", 0, "")
    ELSE IF seconds < 3600
    THEN Text("int", seconds \div 60,
              IF seconds \div 60 # 1 THEN "minutes" ELSE "minute", 0, "")
    ELSE IF seconds < 86400
    THEN Text("fixed1", Fixed1(seconds, 3600, DivErr(seconds, 3600)),
              IF seconds # 3600 THEN "hours" ELSE "hour", 0, "")
    ELSE IF seconds < 604800
    THEN Text("fixed1", Fixed1(seconds, 86400, DivErr(seconds, 86400)),
              IF seconds # 86400 THEN "days" ELSE "day", 0, "")
    ELSE LET days == seconds \div 86400
         IN  IF days < 30
             THEN LET weeks == days \div 7
                      rem_days == days % 7
                  IN  Text("pair", weeks, IF weeks # 1 THEN "weeks" ELSE "week",
                           rem_days, IF rem_days # 1 THEN "days" ELSE "day")
             ELSE IF days < 365
             THEN LET months == days \div 30
                      weeks == (days % 30) \div 7
                  IN  Text("pair", months, IF months # 1 THEN "months" ELSE "month",
                           weeks, IF weeks # 1 THEN "weeks" ELSE "week")
             ELSE LET years == days \div 365
                      months == (days % 365) \div 30
                  IN  Text("pair", years, IF years # 1 THEN "years" ELSE "year",
                           months, IF months # 1 THEN "months" ELSE "month")

-----------------------------------------------------------------------------
(* print_report *)

\* One printed line: what it is, and the values formatted into it.
Line(kind, dir, key, path, nums, text) ==
    [kind |-> kind, dir |-> dir, key |-> key, path |-> path, nums |-> nums, text |-> text]

Msg(kind) == Line(kind, << >>, "", << >>, << >>, << >>)

\* sum(map.get(path, {}).get('size', 0) for path in seq)
RECURSIVE SumSizes(_, _)
SumSizes(seq, map) ==
    IF seq = << >> THEN 0
    ELSE (IF Head(seq) \in DOMAIN map THEN map[Head(seq)].size ELSE 0)
         + SumSizes(Tail(seq), map)

RECURSIVE SumOverDirs(_, _, _, _)
SumOverDirs(ch, D, kind, map) ==
    IF D = {} THEN 0
    ELSE LET d == CHOOSE d \in D : TRUE
         IN  SumSizes(DictGet(ch[d], kind), map) + SumOverDirs(ch, D \ {d}, kind, map)

RECURSIVE CountOverDirs(_, _, _)
CountOverDirs(ch, D, kind) ==
    IF D = {} THEN 0
    ELSE LET d == CHOOSE d \in D : TRUE
         IN  Len(DictGet(ch[d], kind)) + CountOverDirs(ch, D \ {d}, kind)

TotalSize_count(ch, kind, map) == CountOverDirs(ch, DOMAIN ch, kind)

\* sum(map.get(path, {}).get('size', 0)
\*     for dir_name in changes for path in changes[dir_name].get(kind, []))
TotalSize(ch, kind, map) == SumOverDirs(ch, DOMAIN ch, kind, map)

\* changes[dir_name] for every dir_name of dirs: a defaultdict creates the
\* keys it is asked for.
Touched(ch, dirs) ==
    [d \in DOMAIN ch \cup { dirs[i] : i \in DOMAIN dirs } |->
        IF d \in DOMAIN ch THEN ch[d] ELSE EmptyDir]

SummaryRow(ch, dir_name) ==
    Line("row", dir_name, "", << >>,
         << Len(DictGet(ch[dir_name], "nas_only")),
            Len(DictGet(ch[dir_name], "cs_only")),
            Len(DictGet(ch[dir_name], "size_changed")),
            Len(DictGet(ch[dir_name], "nas_newer")),
            Len(DictGet(ch[dir_name], "cs_newer")) >>, << >>)

\* os.path.dirname of a relative path: what precedes the last '/'.
Dirname(path) ==
    IF \E i \in DOMAIN path : path[i] = "/"
    THEN LET i == CHOOSE i \in DOMAIN path :
                    path[i] = "/" /\ \A j \in (i + 1) .. Len(path) : path[j] # "/"
         IN  SubSeq(path, 1, i - 1)
    ELSE << >>

\* mkdir -p and scp for every path of to_copy, below NAS_BASE_PATH.
RECURSIVE CopyCommands(_, _, _, _)
CopyCommands(dir_name, key, to_copy, source_path_for_fix) ==
    IF to_copy = << >> THEN << >>
    ELSE << Line("mkdir", dir_name, key, Dirname(Head(to_copy)), << >>, << >>),
            Line("scp", dir_name, key, Head(to_copy), << >>, << source_path_for_fix >>) >>
         \o CopyCommands(dir_name, key, Tail(to_copy), source_path_for_fix)

\* touch -t <source mod_time> for every path of to_touch.
RECURSIVE TouchCommands(_, _, _, _)
TouchCommands(dir_name, key, to_touch, smap) ==
    IF to_touch = << >> THEN << >>
    ELSE << Line("touch", dir_name, key, Head(to_touch),
                 << smap[Head(to_touch)].mod_time >>, << >>) >>
         \o TouchCommands(dir_name, key, Tail(to_touch), smap)

\* One round of the loop `for dir_name in sorted(changes.keys())`.
FixForDir(ch, dir_name, smap, source_path_for_fix) ==
    LET new     == DictGet(ch[dir_name], "cs_only")
        changed == DictGet(ch[dir_name], "size_changed")
        csn     == DictGet(ch[dir_name], "cs_newer")
        nn      == DictGet(ch[dir_name], "nas_newer")
    IN  (IF new # << >>
         THEN << Line("copy_new_heading", dir_name, "cs_only", << >>, << >>, << >>) >>
              \o CopyCommands(dir_name, "cs_only", new, source_path_for_fix)
         ELSE << >>)
        \o (IF changed # << >>
            THEN << Line("copy_changed_heading", dir_name, "size_changed", << >>, << >>, << >>) >>
                 \o CopyCommands(dir_name, "size_changed", changed, source_path_for_fix)
            ELSE << >>)
        \o (IF csn # << >>
            THEN << Line("touch_cs_heading", dir_name, "cs_newer", << >>, << >>, << >>) >>
                 \o TouchCommands(dir_name, "cs_newer", csn, smap)
            ELSE << >>)
        \o (IF nn # << >>
            THEN << Line("touch_nas_heading", dir_name, "nas_newer", << >>, << >>, << >>) >>
                 \o TouchCommands(dir_name, "nas_newer", nn, smap)
            ELSE << >>)

RECURSIVE FixCommands(_, _, _, _)
FixCommands(ch, dirs, smap, source_path_for_fix) ==
    IF dirs = << >> THEN << >>
    ELSE FixForDir(ch, Head(dirs), smap, source_path_for_fix)
         \o FixCommands(ch, Tail(dirs), smap, source_path_for_fix)

\* The line of one item of a detail list, with the annotation of its kind.
ItemLine(key, item, smap, dmap) ==
    Line("item", << >>, key, item, << >>,
         IF key = "size_changed"
         THEN << human_readable_bytes(IF item \in DOMAIN dmap THEN dmap[item].size ELSE -1),
                 human_readable_bytes(IF item \in DOMAIN smap THEN smap[item].size ELSE -1) >>
         ELSE IF key \in { "nas_newer", "cs_newer" }
         THEN LET diff == dmap[item].mod_time - smap[item].mod_time
              IN  << human_readable_time(IF diff < 0 THEN -diff ELSE diff) >>
         ELSE << >>)

RECURSIVE ItemLines(_, _, _, _)
ItemLines(key, items, smap, dmap) ==
    IF items = << >> THEN << >>
    ELSE << ItemLine(key, Head(items), smap, dmap) >>
         \o ItemLines(key, Tail(items), smap, dmap)

\* detail_map, in its order
DetailKeys == << "nas_only", "cs_only", "size_changed", "nas_newer", "cs_newer" >>

RECURSIVE DetailLines(_, _, _, _, _)
DetailLines(inner, keys, smap, dmap, show_all) ==
    IF keys = << >> THEN << >>
    ELSE LET key   == Head(keys)
             items == DictGet(inner, key)
             shown == IF show_all \/ Len(items) <= 3 THEN items ELSE SubSeq(items, 1, 3)
         IN  (IF items # << >>
              THEN << Line("title", << >>, key, << >>, << Len(items) >>, << >>) >>
                   \o ItemLines(key, shown, smap, dmap)
                   \o (IF ~show_all /\ Len(items) > 3
                       THEN << Line("more", << >>, key, << >>, << Len(items) - 3 >>, << >>) >>
                       ELSE << >>)
              ELSE << >>)
             \o DetailLines(inner, Tail(keys), smap, dmap, show_all)

\* The loop `for dir_name in sorted(all_dirs_sorted)` of the detail section.
\* The inner `for dir_name in sorted(changes.keys())` rebinds dir_name, which
\* does not disturb the iterator of the outer loop.
RECURSIVE DetailSection(_, _, _, _, _, _, _)
DetailSection(ch, dirs, smap, dmap, show_all, show_fix, source_path_for_fix) ==
    IF dirs = << >> THEN << >>
    ELSE LET dir_name == Head(dirs)
         IN  (IF DOMAIN ch[dir_name] = {} THEN << >>
              ELSE << Line("directory", dir_name, "", << >>, << >>, << >>) >>
                   \o (IF show_fix
                       THEN << Msg("fix_heading") >>
                            \o FixCommands(ch, Sorted(DOMAIN ch), smap, source_path_for_fix)
                       ELSE DetailLines(ch[dir_name], DetailKeys, smap, dmap, show_all)))
             \o DetailSection(ch, Tail(dirs), smap, dmap, show_all, show_fix,
                              source_path_for_fix)

RECURSIVE SummaryRows(_, _)
SummaryRows(ch, dirs) ==
    IF dirs = << >> THEN << >>
    ELSE << SummaryRow(ch, Head(dirs)) >> \o SummaryRows(ch, Tail(dirs))

\* print_report(changes, source_map, dest_map, show_all, show_fix,
\*              source_path_for_fix, ...): the lines printed, and changes as
\* the reads of the summary loop leave it.
print_report(ch, smap, dmap, show_all, show_fix, source_path_for_fix) ==
    LET all_dirs_sorted == Sorted({ get_dir_key(p) : p \in DOMAIN smap }
                                  \cup { get_dir_key(p) : p \in DOMAIN dmap })
        total_nas_size == TotalSize(ch, "nas_only", dmap)
        total_cs_size  == TotalSize(ch, "cs_only", smap)
        ch1     == Touched(ch, all_dirs_sorted)
        summary == << Msg("summary_heading"), Msg("header"), Msg("rule") >>
                   \o SummaryRows(ch1, all_dirs_sorted)
                   \o << Msg("rule"),
                         Line("total", << >>, "", << >>, << >>,
                              << human_readable_bytes(total_nas_size),
                                 human_readable_bytes(total_cs_size) >>) >>
    IN  IF DOMAIN ch1 = {}
        THEN [out |-> summary \o << Msg("no_differences") >>, changes |-> ch1]
        ELSE [out |-> summary \o << Msg("details_heading") >>
                      \o DetailSection(ch1, all_dirs_sorted, smap, dmap, show_all,
                                       show_fix, source_path_for_fix),
              changes |-> ch1]

-----------------------------------------------------------------------------
(* get_file_listing *)

\* What `rclone lsjson` may answer. A ModTime is the written wall-clock second,
\* a fraction of a second and a zone offset; valid = FALSE is an entry whose
\* ModTime key is missing or is no ISO time (KeyError, ValueError). The entries
\* of a directory carry Size -1.
Item(path, size, is_dir, valid, secs, frac, tz) ==
    [Path |-> path, Size |-> size, IsDir |-> is_dir,
     ModTime |-> [valid |-> valid, secs |-> secs, frac |-> frac, tz |-> tz]]

fAX  == Item(<<"a", "/", "x">>, 1, FALSE, TRUE, 1, 5, "+01:00")
fAX2 == Item(<<"a", "/", "x">>, 2, FALSE, TRUE, 2, 0, "")
fAYZ == Item(<<"a", "/", "y", "/", "z">>, 1, FALSE, TRUE, 1, 0, "")
fBX  == Item(<<"b", "/", "x">>, 2, FALSE, TRUE, 2, 7, "")
fR   == Item(<<"r">>, 1, FALSE, TRUE, 2, 0, "+01:00")
dAY  == Item(<<"a", "/", "y">>, -1, TRUE, TRUE, 1, 0, "")
dB   == Item(<<"b">>, -1, TRUE, FALSE, 0, 0, "")
fBad == Item(<<"b", "/", "x">>, 1, FALSE, FALSE, 0, 0, "")

Completed(returncode, json, items) ==
    [returncode |-> returncode, json |-> json, items |-> items]

\* The answers of one listing: failures of rclone, output that is no JSON,
\* and entry lists (one with a malformed file entry after a good one, one with
\* the same path twice).
ProcessResults ==
    { Completed(1, FALSE, << >>),
      Completed(1, TRUE, << fAX >>),
      Completed(0, FALSE, << >>),
      Completed(0, TRUE, << >>),
      Completed(0, TRUE, << fAX >>),
      Completed(0, TRUE, << fAX, fAX2 >>),
      Completed(0, TRUE, << fAX, fBX >>),
      Completed(0, TRUE, << dAY, fAYZ, fR >>),
      Completed(0, TRUE, << dB, fBX, fR >>),
      Completed(0, TRUE, << fAX, fBad >>) }

EmptyMap == [p \in {} |-> [size |-> 1, mod_time |-> 1]]

\* item['ModTime'].split('.')[0], fromisoformat, replace(tzinfo=None): the
\* fraction and the zone are dropped, the written second stays.
ParseModTime(m) == m.secs

\* file_map[item['Path']] = {...}: a later entry of the same path replaces.
DictSet(map, path, data) ==
    [p \in DOMAIN map \cup {path} |-> IF p = path THEN data ELSE map[p]]

\* The loop over json.loads(process.stdout): the FileMap, or "raise" when an
\* entry that is no directory has no usable ModTime.
RECURSIVE ParseItems(_, _)
ParseItems(items, file_map) ==
    IF items = << >> THEN [raised |-> FALSE, file_map |-> file_map]
    ELSE LET item == Head(items)
         IN  IF item.IsDir THEN ParseItems(Tail(items), file_map)
             ELSE IF ~item.ModTime.valid THEN [raised |-> TRUE, file_map |-> file_map]
             ELSE ParseItems(Tail(items),
                             DictSet(file_map, item.Path,
                                     [size |-> item.Size,
                                      mod_time |-> ParseModTime(item.ModTime)]))

get_file_listing_swallow(name, proc) ==
    LET info == << Line("info_getting", << >>, name, << >>, << >>, << >>) >>
        r == ParseItems(proc.items, EmptyMap)
    IN  IF proc.returncode # 0
        THEN [status |-> "exit", out |-> info, err |-> << Msg("fatal_rclone"), Msg("rclone_stderr") >>,
              file_map |-> EmptyMap]
        ELSE [status |-> "return",
              out |-> info \o << Line("info_found", << >>, name, << >>,
                                      << Cardinality(DOMAIN r.file_map) >>, << >>) >>,
              err |-> << >>,
              file_map |-> IF proc.json THEN r.file_map ELSE EmptyMap]

\* get_file_listing(path, name, excludes), given what subprocess.run returned:
\* status "return" with the FileMap, "exit" for sys.exit(1), "raise" for an
\* exception nothing catches (the interpreter prints the traceback and exits
\* with status 1).
get_file_listing(name, proc) ==
    LET info == << Line("info_getting", << >>, name, << >>, << >>, << >>) >>
        r == ParseItems(proc.items, EmptyMap)
    IN  IF proc.returncode # 0
        THEN [status |-> "exit", out |-> info, err |-> << Msg("fatal_rclone"), Msg("rclone_stderr") >>,
              file_map |-> EmptyMap]
        ELSE IF ~proc.json
        THEN [status |-> "exit", out |-> info, err |-> << Msg("fatal_parse") >>,
              file_map |-> EmptyMap]
        ELSE IF r.raised
        THEN [status |-> "raise", out |-> info, err |-> << Msg("traceback") >>,
              file_map |-> EmptyMap]
        ELSE [status |-> "return",
              out |-> info \o << Line("info_found", << >>, name, << >>,
                                      << Cardinality(DOMAIN r.file_map) >>, << >>) >>,
              err |-> << >>,
              file_map |-> r.file_map]

-----------------------------------------------------------------------------
(* Scope filtering *)

FinalTlds_excludeFirst(tlds, exclude, smf, dmf) ==
    LET t == tlds \ exclude
    IN  IF t = {}
        THEN { get_dir_key(p) : p \in DOMAIN smf \cup DOMAIN dmf }
        ELSE t

\* tlds_to_process: the positional arguments, or every directory key of the
\* two full maps when there are none, minus the excluded ones.
FinalTlds(tlds, exclude, smf, dmf) ==
    LET t == IF tlds = {}
             THEN { get_dir_key(p) : p \in DOMAIN smf \cup DOMAIN dmf }
             ELSE tlds
    IN  IF exclude # {} THEN t \ exclude ELSE t

\* {path: data for path, data in full.items() if get_dir_key(path) in tlds}
FilterMap(full, tlds) ==
    [p \in { q \in DOMAIN full : get_dir_key(q) \in tlds } |-> full[p]]

-----------------------------------------------------------------------------
(* Actions: the statements of main() *)

DirA == << "a" >>
DirB == << "b" >>

ArgsSet ==
    [tlds : { {}, {DirA}, {DirA, DirB} }, exclude : { {}, {DirB}, {ROOT} },
     show_all : BOOLEAN, show_fix : BOOLEAN, use_snapshot : BOOLEAN]

NoArgs == [tlds |-> {}, exclude |-> {}, show_all |-> FALSE, show_fix |-> FALSE,
           use_snapshot |-> FALSE]

NoText == Text("", 0, "", 0, "")

\* The variables a run starts with, whatever its inputs.
Fresh ==
    /\ process = << >>
    /\ source_path = "SOURCE_PATH_CONFIG"
    /\ tlds_to_process = {}
    /\ changes = EmptyChanges
    /\ stdout = << >>
    /\ stderr = << >>
    /\ exit_code = -1
    /\ calls = << >>
    /\ prompts = 0
    /\ time_diff = 0
    /\ hr_time = NoText

\* sys.exit(1) after the lines `err` on standard error.
Exit1(err) ==
    /\ stderr' = stderr \o err
    /\ exit_code' = 1
    /\ pc' = "exited"

\* select_snapshot, lines 70-83: the snapshot directory is missing, is
\* unreadable or holds no snapshot.
SelectSnapshotFatal ==
    /\ pc = "start" /\ args.use_snapshot
    /\ \E why \in { "fatal_no_snapshot_dir", "fatal_unreadable", "fatal_no_snapshots" } :
          Exit1(<< Msg(why) >>)
    /\ calls' = Append(calls, "select_snapshot")
    /\ UNCHANGED << args, mounted, process, source_path, source_map_full, dest_map_full,
                    tlds_to_process, source_map, dest_map, changes, stdout, prompts,
                    time_diff, hr_time >>

\* select_snapshot, lines 85-87: the snapshots are listed.
SelectSnapshotList ==
    /\ pc = "start" /\ args.use_snapshot
    /\ stdout' = stdout \o << Msg("select_heading"), Msg("snapshot_entry") >>
    /\ calls' = Append(calls, "select_snapshot")
    /\ pc' = "prompt"
    /\ UNCHANGED << args, mounted, process, source_path, source_map_full, dest_map_full,
                    tlds_to_process, source_map, dest_map, changes, stderr, exit_code,
                    prompts, time_diff, hr_time >>

\* select_snapshot, lines 98-101: an answer that is no number of the list.
SnapshotInvalidChoice ==
    /\ pc = "prompt"
    /\ prompts < MaxPrompts
    /\ \E why \in { "invalid_number", "invalid_input" } :
          stdout' = Append(stdout, Msg(why))
    /\ prompts' = prompts + 1
    /\ UNCHANGED << pc, args, mounted, process, source_path, source_map_full,
                    dest_map_full, tlds_to_process, source_map, dest_map, changes,
                    stderr, exit_code, calls, time_diff, hr_time >>

\* select_snapshot, lines 93-97: a valid answer; main takes the snapshot path.
SnapshotChosen ==
    /\ pc = "prompt"
    /\ source_path' = "snapshot"
    /\ pc' = "list_source"
    /\ UNCHANGED << args, mounted, process, source_map_full, dest_map_full,
                    tlds_to_process, source_map, dest_map, changes, stdout, stderr,
                    exit_code, calls, prompts, time_diff, hr_time >>

\* main, line 306: source_map_full = get_file_listing(source_path, ...)
ListSource ==
    /\ \/ pc = "start" /\ ~args.use_snapshot
       \/ pc = "list_source"
    /\ \E proc \in ProcessResults :
          LET r == get_file_listing(source_path, proc)
          IN  /\ process' = Append(process, proc)
              /\ stdout' = stdout \o r.out
              /\ IF r.status = "return"
                 THEN /\ source_map_full' = r.file_map
                      /\ pc' = "list_dest"
                      /\ UNCHANGED << stderr, exit_code >>
                 ELSE /\ Exit1(r.err)
                      /\ UNCHANGED source_map_full
    /\ calls' = Append(calls, "get_file_listing")
    /\ UNCHANGED << args, mounted, source_path, dest_map_full, tlds_to_process,
                    source_map, dest_map, changes, prompts, time_diff, hr_time >>

\* main, line 307: dest_map_full = get_file_listing(DEST_PATH_CONFIG, ...)
ListDest ==
    /\ pc = "list_dest"
    /\ \E proc \in ProcessResults :
          LET r == get_file_listing("nas", proc)
          IN  /\ process' = Append(process, proc)
              /\ stdout' = stdout \o r.out
              /\ IF r.status = "return"
                 THEN /\ dest_map_full' = r.file_map
                      /\ pc' = "filter"
                      /\ UNCHANGED << stderr, exit_code >>
                 ELSE /\ Exit1(r.err)
                      /\ UNCHANGED dest_map_full
    /\ calls' = Append(calls, "get_file_listing")
    /\ UNCHANGED << args, mounted, source_path, source_map_full, tlds_to_process,
                    source_map, dest_map, changes, prompts, time_diff, hr_time >>

\* main, lines 310-320: the final set of directories, and both maps filtered.
FilterScope ==
    /\ pc = "filter"
    /\ LET final == FinalTlds(args.tlds, args.exclude, source_map_full, dest_map_full)
       IN  /\ tlds_to_process' = final
           /\ source_map' = FilterMap(source_map_full, final)
           /\ dest_map' = FilterMap(dest_map_full, final)
    /\ stdout' = IF args.exclude # {} THEN Append(stdout, Msg("info_excluding")) ELSE stdout
    /\ pc' = "mount_check"
    /\ UNCHANGED << args, mounted, process, source_path, source_map_full, dest_map_full,
                    changes, stderr, exit_code, calls, prompts, time_diff, hr_time >>

\* main, lines 322-324: if not os.path.ismount(SOURCE_PATH_CONFIG): sys.exit(1)
MountCheck ==
    /\ pc = "mount_check"
    /\ IF mounted
       THEN pc' = "compare" /\ UNCHANGED << stderr, exit_code >>
       ELSE Exit1(<< Msg("fatal_not_mounted") >>)
    /\ UNCHANGED << args, mounted, process, source_path, source_map_full, dest_map_full,
                    tlds_to_process, source_map, dest_map, changes, stdout, calls,
                    prompts, time_diff, hr_time >>

\* main, line 326: differences = compare_listings(source_map, dest_map)
CompareListings ==
    /\ pc = "compare"
    /\ \E order \in Orders(DOMAIN source_map \cup DOMAIN dest_map) :
          changes' = compare_listings(source_map, dest_map, order)
    /\ calls' = Append(calls, "compare_listings")
    /\ pc' = "report"
    /\ UNCHANGED << args, mounted, process, source_path, source_map_full, dest_map_full,
                    tlds_to_process, source_map, dest_map, stdout, stderr, exit_code,
                    prompts, time_diff, hr_time >>

\* main, line 327: print_report(differences, source_map, dest_map, ...), after
\* which main returns and the process ends with status 0.
PrintReport ==
    /\ pc = "report"
    /\ LET r == print_report(changes, source_map, dest_map, args.show_all,
                             args.show_fix, source_path)
       IN  /\ stdout' = stdout \o r.out
           /\ changes' = r.changes
    /\ calls' = Append(calls, "print_report")
    /\ exit_code' = 0
    /\ pc' = "done"
    /\ UNCHANGED << args, mounted, process, source_path, source_map_full, dest_map_full,
                    tlds_to_process, source_map, dest_map, stderr, prompts, time_diff,
                    hr_time >>

\* human_readable_time applied to time_diff.
HumanReadableTime ==
    /\ pc = "time"
    /\ hr_time' = human_readable_time(time_diff)
    /\ pc' = "time_done"
    /\ UNCHANGED << args, mounted, process, source_path, source_map_full, dest_map_full,
                    tlds_to_process, source_map, dest_map, changes, stdout, stderr,
                    exit_code, calls, prompts, time_diff >>

-----------------------------------------------------------------------------
(* The program: one run of main() *)

Init ==
    /\ pc = "start"
    /\ args \in ArgsSet
    /\ mounted \in BOOLEAN
    /\ source_map_full = EmptyMap
    /\ dest_map_full = EmptyMap
    /\ source_map = EmptyMap
    /\ dest_map = EmptyMap
    /\ Fresh

Next ==
    \/ SelectSnapshotFatal
    \/ SelectSnapshotList
    \/ SnapshotInvalidChoice
    \/ SnapshotChosen
    \/ ListSource
    \/ ListDest
    \/ FilterScope
    \/ MountCheck
    \/ CompareListings
    \/ PrintReport

Spec == Init /\ [][Next]_vars

-----------------------------------------------------------------------------
(* compare_listings on its own: any two FileMaps *)

InitCompare ==
    /\ pc = "compare"
    /\ args = NoArgs
    /\ mounted = TRUE
    /\ source_map \in FileMapsUpTo(MaxFiles)
    /\ dest_map \in FileMapsUpTo(MaxFiles - Cardinality(DOMAIN source_map))
    /\ source_map_full = source_map
    /\ dest_map_full = dest_map
    /\ Fresh

NextCompare == CompareListings

SpecCompare == InitCompare /\ [][NextCompare]_vars

-----------------------------------------------------------------------------
(* compare_listings and print_report on any two FileMaps, any display options *)

InitReport ==
    /\ pc = "compare"
    /\ args \in [tlds : { {} }, exclude : { {} }, show_all : BOOLEAN,
                 show_fix : BOOLEAN, use_snapshot : { FALSE }]
    /\ mounted = TRUE
    /\ source_map \in FileMapsUpTo(MaxFiles)
    /\ dest_map \in FileMapsUpTo(MaxFiles - Cardinality(DOMAIN source_map))
    /\ source_map_full = source_map
    /\ dest_map_full = dest_map
    /\ Fresh

NextReport == CompareListings \/ PrintReport

SpecReport == InitReport /\ [][NextReport]_vars

-----------------------------------------------------------------------------
(* human_readable_time on its own *)

\* Whole seconds around every threshold, the examples of the documentation,
\* and decimal ties of the one-decimal formats.
TimeSamples ==
    (0 .. 61) \cup { 90, 119, 120, 3599, 3600, 3601, 3780, 4500, 5400, 7200,
                     86399, 86400, 86401, 90000, 90720, 172800, 604799 }
    \cup { d * 86400 : d \in { 7, 8, 14, 15, 29, 30, 31, 37, 60, 364, 365, 366,
                               395, 730, 800 } }
    \cup { d * 86400 + 86399 : d \in { 7, 29, 364 } }

InitTime ==
    /\ pc = "time"
    /\ args = NoArgs
    /\ mounted = TRUE
    /\ source_map_full = EmptyMap
    /\ dest_map_full = EmptyMap
    /\ source_map = EmptyMap
    /\ dest_map = EmptyMap
    /\ process = << >>
    /\ source_path = "SOURCE_PATH_CONFIG"
    /\ tlds_to_process = {}
    /\ changes = EmptyChanges
    /\ stdout = << >>
    /\ stderr = << >>
    /\ exit_code = -1
    /\ calls = << >>
    /\ prompts = 0
    /\ time_diff \in TimeSamples
    /\ hr_time = NoText

NextTime == HumanReadableTime

SpecTime == InitTime /\ [][NextTime]_vars

-----------------------------------------------------------------------------
(* Vocabulary of the properties *)

\* The DirectoryKey of a path as the specification words it.
IsDirectoryKey(k, p) ==
    \/ /\ \A i \in DOMAIN p : p[i] # "/"
       /\ k = ROOT
    \/ \E i \in DOMAIN p :
          /\ p[i] = "/"
          /\ \A j \in 1 .. (i - 1) : p[j] # "/"
          /\ k = SubSeq(p, 1, i - 1)

\* How often path p occurs in the list of kind k of bucket d.
Occurs(ch, d, k, p) ==
    IF d \in DOMAIN ch /\ k \in DOMAIN ch[d]
    THEN Cardinality({ i \in DOMAIN ch[d][k] : ch[d][k][i] = p })
    ELSE 0

\* Path p occurs exactly once in the whole structure: in kind k of bucket d.
FiledOnlyAs(ch, d, k, p) ==
    /\ Occurs(ch, d, k, p) = 1
    /\ \A dd \in DOMAIN ch : \A kk \in Kinds :
          (dd # d \/ kk # k) => Occurs(ch, dd, kk, p) = 0

Compared == pc = "report"

\* C1: a path only in the destination is in nas_only, a path only in the
\* source is in cs_only, in no other list, under the DirectoryKey of the path.
C1_SymmetricDifference ==
    Compared =>
        \A p \in Paths : \A k \in { ROOT } \cup { SubSeq(p, 1, i) : i \in 0 .. Len(p) } :
            IsDirectoryKey(k, p) =>
                /\ (p \in DOMAIN dest_map \ DOMAIN source_map
                        => FiledOnlyAs(changes, k, "nas_only", p))
                /\ (p \in DOMAIN source_map \ DOMAIN dest_map
                        => FiledOnlyAs(changes, k, "cs_only", p))

\* C1 witness: a nested path only in the destination and a root path only in
\* the source have been compared.
C1_Witness ==
    /\ Compared
    /\ <<"a", "/", "y", "/", "z">> \in DOMAIN dest_map \ DOMAIN source_map
    /\ <<"r">> \in DOMAIN source_map \ DOMAIN dest_map

\* C2: a path in both maps is size_changed alone if the sizes differ; else
\* nas_newer iff the destination is strictly later, cs_newer iff strictly
\* earlier; and nowhere if size and time are equal.
C2_TieBreak ==
    Compared =>
        \A p \in DOMAIN source_map \cap DOMAIN dest_map :
            LET s == source_map[p]
                d == dest_map[p]
                k == CHOOSE k \in { ROOT } \cup { SubSeq(p, 1, i) : i \in 0 .. Len(p) } :
                        IsDirectoryKey(k, p)
            IN  /\ s.size # d.size => FiledOnlyAs(changes, k, "size_changed", p)
                /\ (s.size = d.size /\ d.mod_time > s.mod_time)
                        => FiledOnlyAs(changes, k, "nas_newer", p)
                /\ (s.size = d.size /\ d.mod_time < s.mod_time)
                        => FiledOnlyAs(changes, k, "cs_newer", p)
                /\ (s.size = d.size /\ d.mod_time = s.mod_time)
                        => \A dd \in DOMAIN changes : \A kk \in Kinds :
                              Occurs(changes, dd, kk, p) = 0

\* C2 witness: a compared path differs in size and in time.
C2_Witness ==
    /\ Compared
    /\ \E p \in DOMAIN source_map \cap DOMAIN dest_map :
          /\ source_map[p].size # dest_map[p].size
          /\ source_map[p].mod_time > dest_map[p].mod_time

\* C3: no path occurs in two kinds, in two buckets or twice in a list; a path
\* that occurs is in one of the maps and in the bucket of its DirectoryKey;
\* and nothing but the five kinds and lists of paths is in the structure.
C3_MutuallyExclusive ==
    Compared =>
        /\ \A d \in DOMAIN changes :
              /\ DOMAIN changes[d] \subseteq Kinds
              /\ \A k \in DOMAIN changes[d] : \A i \in DOMAIN changes[d][k] :
                    LET p == changes[d][k][i]
                    IN  /\ p \in DOMAIN source_map \cup DOMAIN dest_map
                        /\ IsDirectoryKey(d, p)
                        /\ FiledOnlyAs(changes, d, k, p)

\* C3 witness: two buckets are filled and one path differs in size and time.
C3_Witness ==
    /\ Compared
    /\ Cardinality(DOMAIN changes) >= 2
    /\ \E p \in DOMAIN source_map \cap DOMAIN dest_map :
          /\ source_map[p].size # dest_map[p].size
          /\ source_map[p].mod_time # dest_map[p].mod_time

-----------------------------------------------------------------------------
(* Scope filtering, the report and the run *)

\* The DirectoryKey of path p, by its definition.
KeyOf(p) ==
    CHOOSE k \in { ROOT } \cup { SubSeq(p, 1, i) : i \in 0 .. Len(p) } :
        IsDirectoryKey(k, p)

\* The divergence kind the tie-break order gives path p, "" for none.
KindOf(p) ==
    IF p \in DOMAIN dest_map \ DOMAIN source_map THEN "nas_only"
    ELSE IF p \in DOMAIN source_map \ DOMAIN dest_map THEN "cs_only"
    ELSE IF p \notin DOMAIN source_map THEN ""
    ELSE IF source_map[p].size # dest_map[p].size THEN "size_changed"
    ELSE IF dest_map[p].mod_time > source_map[p].mod_time THEN "nas_newer"
    ELSE IF dest_map[p].mod_time < source_map[p].mod_time THEN "cs_newer"
    ELSE ""

FilteredPaths == DOMAIN source_map \cup DOMAIN dest_map

RECURSIVE SetSum(_, _)
SetSum(S, map) ==
    IF S = {} THEN 0
    ELSE LET p == CHOOSE p \in S : TRUE
         IN  map[p].size + SetSum(S \ {p}, map)

Printed(kinds) == SelectSeq(stdout, LAMBDA l : l.kind \in kinds)

Called(f) == \E i \in DOMAIN calls : calls[i] = f

\* The final included set as the documentation gives it.
ExpectedFinal ==
    (IF args.tlds # {}
     THEN args.tlds
     ELSE { KeyOf(p) : p \in DOMAIN source_map_full \cup DOMAIN dest_map_full })
    \ args.exclude

\* C4: the final set is the include list, or all directory keys of the two
\* full maps when there is none, minus the exclude list; an entry of either
\* full map survives iff its key is in that set, with its metadata unchanged.
C4_ScopeFiltering ==
    pc = "mount_check" =>
        /\ tlds_to_process = ExpectedFinal
        /\ DOMAIN source_map =
              { p \in DOMAIN source_map_full : KeyOf(p) \in ExpectedFinal }
        /\ DOMAIN dest_map =
              { p \in DOMAIN dest_map_full : KeyOf(p) \in ExpectedFinal }
        /\ \A p \in DOMAIN source_map : source_map[p] = source_map_full[p]
        /\ \A p \in DOMAIN dest_map : dest_map[p] = dest_map_full[p]
        /\ (args.tlds = {DirA, DirB} /\ args.exclude = {DirB}
               => \A p \in FilteredPaths : KeyOf(p) = DirA)

\* C4 witness: include {a, b}, exclude {b}; a file of b is dropped from the
\* source map and a file of a is kept.
C4_Witness ==
    /\ pc = "mount_check"
    /\ args.tlds = {DirA, DirB} /\ args.exclude = {DirB}
    /\ <<"b", "/", "x">> \in DOMAIN source_map_full \ DOMAIN source_map
    /\ <<"a", "/", "x">> \in DOMAIN source_map

\* C4 witness of the default: no include list, the root excluded, a root file
\* dropped from the destination map.
C4_WitnessDefault ==
    /\ pc = "mount_check"
    /\ args.tlds = {} /\ args.exclude = {ROOT}
    /\ <<"r">> \in DOMAIN dest_map_full \ DOMAIN dest_map
    /\ dest_map # EmptyMap

ExpectedCount(d, kind) ==
    Cardinality({ p \in FilteredPaths : KeyOf(p) = d /\ KindOf(p) = kind })

\* C5: the summary has one row per directory key of the two filtered maps, in
\* sorted order, with the number of paths of each kind; the TOTAL row shows
\* the destination sizes of the nas_only paths and the source sizes of the
\* cs_only paths, summed.
C5_SummaryTable ==
    pc = "done" =>
        LET rows   == Printed({ "row" })
            totals == Printed({ "total" })
        IN  /\ { rows[i].dir : i \in DOMAIN rows } = { KeyOf(p) : p \in FilteredPaths }
            /\ \A i, j \in DOMAIN rows : i < j => StrLess(rows[i].dir, rows[j].dir)
            /\ \A i \in DOMAIN rows :
                  rows[i].nums = << ExpectedCount(rows[i].dir, "nas_only"),
                                    ExpectedCount(rows[i].dir, "cs_only"),
                                    ExpectedCount(rows[i].dir, "size_changed"),
                                    ExpectedCount(rows[i].dir, "nas_newer"),
                                    ExpectedCount(rows[i].dir, "cs_newer") >>
            /\ Len(totals) = 1
            /\ totals[1].text =
                  << human_readable_bytes(
                         SetSum(DOMAIN dest_map \ DOMAIN source_map, dest_map)),
                     human_readable_bytes(
                         SetSum(DOMAIN source_map \ DOMAIN dest_map, source_map)) >>

\* C5 witness: a report of three directories, two files only on the
\* destination with different sizes.
C5_Witness ==
    /\ pc = "done"
    /\ Len(Printed({ "row" })) = 3
    /\ \E p, q \in DOMAIN dest_map \ DOMAIN source_map :
          dest_map[p].size = 1 /\ dest_map[q].size = 2

\* Nothing was classified: every list of the structure is empty.
NoDivergence == \A p \in FilteredPaths : KindOf(p) = ""

\* C6: when no path is classified, nothing of the detail section is printed.
C6_DetailSkippedWithoutDivergence ==
    (pc = "done" /\ NoDivergence) =>
        Printed({ "details_heading", "directory", "fix_heading", "title", "item" }) = << >>

\* C9: with show_fix, every directory is visited once, in sorted order: each
\* heading of the fix commands is printed once per directory and the
\* directories of the commands never step back; every cs_only and
\* size_changed path gets its copy command, every nas_newer and cs_newer path
\* its touch command; and no itemised detail line is printed.
C9_FixCommandsPerDirectory ==
    (pc = "done" /\ args.show_fix) =>
        LET cmds  == Printed({ "scp", "touch" })
            heads == Printed({ "copy_new_heading", "copy_changed_heading",
                               "touch_cs_heading", "touch_nas_heading" })
        IN  /\ \A i, j \in DOMAIN cmds : i < j => ~StrLess(cmds[j].dir, cmds[i].dir)
            /\ \A i, j \in DOMAIN heads : i # j => heads[i] # heads[j]
            /\ \A p \in FilteredPaths :
                  /\ Cardinality({ i \in DOMAIN cmds :
                                      cmds[i].kind = "scp" /\ cmds[i].path = p })
                        = IF KindOf(p) \in { "cs_only", "size_changed" } THEN 1 ELSE 0
                  /\ Cardinality({ i \in DOMAIN cmds :
                                      cmds[i].kind = "touch" /\ cmds[i].path = p })
                        = IF KindOf(p) \in { "nas_newer", "cs_newer" } THEN 1 ELSE 0
            /\ Printed({ "title", "item", "more" }) = << >>

\* The output of a listing is a well-formed entry list: it is JSON and every
\* entry of a file has a usable modification time.
WellFormed(proc) ==
    /\ proc.json
    /\ \A i \in DOMAIN proc.items : proc.items[i].IsDir \/ proc.items[i].ModTime.valid

ListingFailed(proc) == proc.returncode # 0 \/ ~WellFormed(proc)

\* C7: a run whose source root is not mounted never compares or reports and
\* never ends with status 0; when it ends on the mount check it ends with
\* status 1 and has written nothing to standard output; a run that compares
\* has a mounted root.
C7_NotMountedIsFatal ==
    /\ ~mounted => /\ ~Called("compare_listings")
                   /\ ~Called("print_report")
                   /\ exit_code # 0
    /\ (\E i \in DOMAIN stderr : stderr[i].kind = "fatal_not_mounted")
          => /\ pc = "exited" /\ exit_code = 1
             /\ stdout = << >>
    /\ Called("compare_listings") => mounted

C8_WitnessSource ==
    /\ Len(process) = 1
    /\ process[1].returncode = 0 /\ ~process[1].json
    /\ pc = "exited"

Singular(unit) ==
    CASE unit \in { "second", "seconds" } -> "second"
      [] unit \in { "minute", "minutes" } -> "minute"
      [] unit \in { "hour", "hours" } -> "hour"
      [] unit \in { "day", "days" } -> "day"
      [] unit \in { "week", "weeks" } -> "week"
      [] unit \in { "month", "months" } -> "month"
      [] unit \in { "year", "years" } -> "year"
      [] OTHER -> ""

IsPlural(unit) == unit # Singular(unit)

\* C10: the unit follows the thresholds, the unit word is plural exactly when
\* the displayed magnitude is not 1, and 45 s, 90 s, 7200 s and 90000 s give
\* "45 seconds", "1 minute", "2.0 hours" and "1.0 day".
C10_UnitsAndPlurals ==
    pc = "time_done" =>
        LET s == time_diff
            t == hr_time
            day == 86400
        IN  /\ s < 60 => t.fmt = "int" /\ Singular(t.unit_a) = "second" /\ t.a = s
            /\ (s >= 60 /\ s < 3600) => t.fmt = "int" /\ Singular(t.unit_a) = "minute"
            /\ (s >= 3600 /\ s < day) => t.fmt = "fixed1" /\ Singular(t.unit_a) = "hour"
            /\ (s >= day /\ s < 7 * day) => t.fmt = "fixed1" /\ Singular(t.unit_a) = "day"
            /\ (s >= 7 * day /\ s < 30 * day)
                  => t.fmt = "pair" /\ Singular(t.unit_a) = "week" /\ Singular(t.unit_b) = "day"
            /\ (s >= 30 * day /\ s < 365 * day)
                  => t.fmt = "pair" /\ Singular(t.unit_a) = "month" /\ Singular(t.unit_b) = "week"
            /\ s >= 365 * day
                  => t.fmt = "pair" /\ Singular(t.unit_a) = "year" /\ Singular(t.unit_b) = "month"
            /\ t.fmt = "int" => (IsPlural(t.unit_a) <=> t.a # 1)
            /\ t.fmt = "fixed1" => (IsPlural(t.unit_a) <=> t.a # 10)
            /\ t.fmt = "pair" => /\ IsPlural(t.unit_a) <=> t.a # 1
                                 /\ IsPlural(t.unit_b) <=> t.b # 1
            /\ s = 45 => t = Text("int", 45, "seconds", 0, "")
            /\ s = 90 => t = Text("int", 1, "minute", 0, "")
            /\ s = 7200 => t = Text("fixed1", 20, "hours", 0, "")
            /\ s = 90000 => t = Text("fixed1", 10, "day", 0, "")

====
